---- MODULE Spec2Model ----
(***************************************************************************)
(* Timestamp rebasement engine of rebase_timestamps.py: the timestamp      *)
(* codec (strptime / timedelta addition / strftime), the per-file scanner  *)
(* detect_date_range, the per-file rebaser rebase_csv_file and the batch   *)
(* orchestrator rebase_directory with its thread pool.                     *)
(*                                                                         *)
(* Text values (CSV fields) are sequences of one-character strings, so     *)
(* that parsing and formatting are computed character by character.        *)
(***************************************************************************)
EXTENDS Integers, Sequences, FiniteSets, TLC

(***************************************************************************)
(* Bounds of the model.                                                    *)
(***************************************************************************)
NumFiles == 2        \* number of *.csv files in the source directory
MaxWorkers == 2      \* largest max_workers argument (16 by default in the program)
TwinChunks == 2      \* writes that one rebase_csv_file flushes to its temporary file
MaxFaults == 1       \* injected I/O faults (open/write/remove/rename) per run

(***************************************************************************)
(* Literal field texts used as inputs.                                     *)
(***************************************************************************)
TS_2025_01_01_16 == <<"2", "0", "2", "5", "-", "0", "1", "-", "0", "1", " ", "1", "6", ":", "0", "0", ":", "0", "0">>
TS_2025_01_05_23 == <<"2", "0", "2", "5", "-", "0", "1", "-", "0", "5", " ", "2", "3", ":", "5", "9", ":", "5", "9">>
TS_2025_01_03_00 == <<"2", "0", "2", "5", "-", "0", "1", "-", "0", "3", " ", "0", "0", ":", "0", "0", ":", "0", "0">>
TS_2025_01_10_12 == <<"2", "0", "2", "5", "-", "0", "1", "-", "1", "0", " ", "1", "2", ":", "3", "0", ":", "0", "0">>
TS_2024_02_28_07 == <<"2", "0", "2", "4", "-", "0", "2", "-", "2", "8", " ", "0", "7", ":", "0", "5", ":", "0", "9">>
TS_2024_02_29_00 == <<"2", "0", "2", "4", "-", "0", "2", "-", "2", "9", " ", "0", "0", ":", "0", "0", ":", "0", "0">>
TS_2023_12_31_23 == <<"2", "0", "2", "3", "-", "1", "2", "-", "3", "1", " ", "2", "3", ":", "5", "9", ":", "5", "9">>
TS_2100_02_28_10 == <<"2", "1", "0", "0", "-", "0", "2", "-", "2", "8", " ", "1", "0", ":", "2", "0", ":", "3", "0">>
TS_2000_02_29_01 == <<"2", "0", "0", "0", "-", "0", "2", "-", "2", "9", " ", "0", "1", ":", "0", "2", ":", "0", "3">>
TS_9999_12_31_00 == <<"9", "9", "9", "9", "-", "1", "2", "-", "3", "1", " ", "0", "0", ":", "0", "0", ":", "0", "0">>
TS_0001_01_01_00 == <<"0", "0", "0", "1", "-", "0", "1", "-", "0", "1", " ", "0", "0", ":", "0", "0", ":", "0", "0">>
TS_0999_12_31_08 == <<"0", "9", "9", "9", "-", "1", "2", "-", "3", "1", " ", "0", "8", ":", "0", "0", ":", "0", "0">>
TS_unpadded == <<"2", "0", "2", "5", "-", "1", "-", "5", " ", "7", ":", "3", ":", "2">>
TS_spaced == <<" ", "2", "0", "2", "5", "-", "0", "1", "-", "0", "2", " ", " ", "0", "6", ":", "0", "0", ":", "0", "0", " ">>
TS_spaceday == <<"2", "0", "2", "5", "-", "0", "1", "-", " ", "5", " ", "0", "0", ":", "0", "0", ":", "0", "1">>
TS_iso_T == <<"2", "0", "2", "5", "-", "0", "1", "-", "0", "5", "T", "0", "7", ":", "0", "3", ":", "0", "2">>
TS_month13 == <<"2", "0", "2", "5", "-", "1", "3", "-", "0", "1", " ", "0", "0", ":", "0", "0", ":", "0", "0">>
TS_feb30 == <<"2", "0", "2", "5", "-", "0", "2", "-", "3", "0", " ", "0", "0", ":", "0", "0", ":", "0", "0">>
TS_feb29_2025 == <<"2", "0", "2", "5", "-", "0", "2", "-", "2", "9", " ", "0", "0", ":", "0", "0", ":", "0", "0">>
TS_hour24 == <<"2", "0", "2", "5", "-", "0", "1", "-", "0", "1", " ", "2", "4", ":", "0", "0", ":", "0", "0">>
TS_sec60 == <<"2", "0", "2", "5", "-", "0", "1", "-", "0", "1", " ", "0", "0", ":", "0", "0", ":", "6", "0">>
TS_fraction == <<"2", "0", "2", "5", "-", "0", "1", "-", "0", "5", " ", "0", "7", ":", "0", "3", ":", "0", "2", ".", "5">>
TS_dateonly == <<"2", "0", "2", "5", "-", "0", "1", "-", "0", "1">>
TS_year5 == <<"0", "2", "0", "2", "5", "-", "0", "1", "-", "0", "1", " ", "0", "0", ":", "0", "0", ":", "0", "0">>
TS_garbage == <<"n", "/", "a">>
TS_empty == <<>>
V_123_4 == <<"1", "2", "3", ".", "4">>
V_7 == <<"7">>
V_OK == <<"O", "K">>
V_BAD == <<"B", "A", "D">>

\* Python's None where a text is expected (DictReader restval, the result of
\* rebase_timestamp on failure).  It is not a sequence of characters.
NoneVal == <<"None">>

(***************************************************************************)
(* Characters.                                                             *)
(***************************************************************************)
Digits == <<"0", "1", "2", "3", "4", "5", "6", "7", "8", "9">>

IsDigit(c) == \E k \in 1..10 : Digits[k] = c

DigitVal(c) == (CHOOSE k \in 1..10 : Digits[k] = c) - 1

\* str.strip() and the regular expression class \s
IsSpace(c) == c \in {" ", "\t"}

RECURSIVE LStrip(_)
LStrip(s) == IF s # <<>> /\ IsSpace(Head(s)) THEN LStrip(Tail(s)) ELSE s

RECURSIVE RStrip(_)
RStrip(s) ==
    IF s # <<>> /\ IsSpace(s[Len(s)]) THEN RStrip(SubSeq(s, 1, Len(s) - 1)) ELSE s

Strip(s) == RStrip(LStrip(s))

\* number of consecutive digits of s from position i on
RECURSIVE DigitRun(_, _)
DigitRun(s, i) ==
    IF i <= Len(s) /\ IsDigit(s[i]) THEN 1 + DigitRun(s, i + 1) ELSE 0

\* number of consecutive whitespace characters of s from position i on
RECURSIVE SpaceRun(_, _)
SpaceRun(s, i) ==
    IF i <= Len(s) /\ IsSpace(s[i]) THEN 1 + SpaceRun(s, i + 1) ELSE 0

\* value of the n digits of s that start at position i
RECURSIVE NumAt(_, _, _)
NumAt(s, i, n) ==
    IF n = 0 THEN 0 ELSE NumAt(s, i, n - 1) * 10 + DigitVal(s[i + n - 1])

CharAt(s, i) == IF i >= 1 /\ i <= Len(s) THEN s[i] ELSE "<eos>"

(***************************************************************************)
(* Calendar of datetime.date (proleptic Gregorian, years 1..9999).         *)
(***************************************************************************)
MINYEAR == 1
MAXYEAR == 9999

IsLeap(y) == y % 4 = 0 /\ (y % 100 # 0 \/ y % 400 = 0)

DaysInMonthTable == <<31, 28, 31, 30, 31, 30, 31, 31, 30, 31, 30, 31>>

DaysInMonth(y, m) == IF m = 2 /\ IsLeap(y) THEN 29 ELSE DaysInMonthTable[m]

DaysBeforeMonthTable == <<0, 31, 59, 90, 120, 151, 181, 212, 243, 273, 304, 334>>

DaysBeforeMonth(y, m) ==
    DaysBeforeMonthTable[m] + (IF m > 2 /\ IsLeap(y) THEN 1 ELSE 0)

DaysBeforeYear(y) ==
    LET p == y - 1 IN p * 365 + (p \div 4) - (p \div 100) + (p \div 400)

\* date.toordinal(): 0001-01-01 is day 1
ymd2ord(y, m, d) == DaysBeforeYear(y) + DaysBeforeMonth(y, m) + d

MaxOrdinal == ymd2ord(MAXYEAR, 12, 31)

\* date.fromordinal(): the inverse of ymd2ord, by 400/100/4/1-year cycles.
\* n is the zero-based day of the year, month0 the estimate (n + 50) >> 5.
MonthDay(year, n, month0) ==
    IF DaysBeforeMonth(year, month0) > n
    THEN [year |-> year, month |-> month0 - 1,
          day |-> n - DaysBeforeMonth(year, month0 - 1) + 1]
    ELSE [year |-> year, month |-> month0,
          day |-> n - DaysBeforeMonth(year, month0) + 1]

FromYears(year, n100, n1, n) ==
    IF n1 = 4 \/ n100 = 4
    THEN [year |-> year - 1, month |-> 12, day |-> 31]
    ELSE MonthDay(year, n, (n + 50) \div 32)

FromCycles4(n400, n100, n4, r) ==
    FromYears(n400 * 400 + 1 + n100 * 100 + n4 * 4 + (r \div 365),
              n100, r \div 365, r % 365)

FromCycles100(n400, n100, r) == FromCycles4(n400, n100, r \div 1461, r % 1461)

FromCycles400(n400, r) == FromCycles100(n400, r \div 36524, r % 36524)

ord2ymd(ordinal) ==
    FromCycles400((ordinal - 1) \div 146097, (ordinal - 1) % 146097)

NoneDate == [year |-> 0, month |-> 0, day |-> 0]

DateOrd(d) == ymd2ord(d.year, d.month, d.day)

\* date < date
DateLT(a, b) == DateOrd(a) < DateOrd(b)

\* date - date, as timedelta.days
DateDiff(a, b) == DateOrd(a) - DateOrd(b)

\* date + timedelta(days): OverflowError outside MINYEAR..MAXYEAR
DateAddOverflows(d, days) ==
    DateOrd(d) + days < 1 \/ DateOrd(d) + days > MaxOrdinal

DateAdd(d, days) == ord2ymd(DateOrd(d) + days)

(***************************************************************************)
(* Timestamp codec: datetime.strptime(text.strip(), '%Y-%m-%d %H:%M:%S'),  *)
(* datetime + timedelta, datetime.strftime('%Y-%m-%d %H:%M:%S').           *)
(***************************************************************************)
NoDatetime ==
    [year |-> 0, month |-> 0, day |-> 0, hour |-> 0, minute |-> 0, second |-> 0]

ParseError == [ok |-> FALSE, dt |-> NoDatetime]

\* A numeric directive of one or two digits at position i of s, run being
\* the number of digits found there: [len, val], len = 0 when the directive
\* does not match.
NumFieldOf(run, s, i, lo2, hi2, lo1, hi1) ==
    IF run = 2 /\ NumAt(s, i, 2) >= lo2 /\ NumAt(s, i, 2) <= hi2
    THEN [len |-> 2, val |-> NumAt(s, i, 2)]
    ELSE IF run = 1 /\ NumAt(s, i, 1) >= lo1 /\ NumAt(s, i, 1) <= hi1
    THEN [len |-> 1, val |-> NumAt(s, i, 1)]
    ELSE [len |-> 0, val |-> 0]

NumField(s, i, lo2, hi2, lo1, hi1) ==
    NumFieldOf(DigitRun(s, i), s, i, lo2, hi2, lo1, hi1)

\* %d also accepts a space followed by one digit 1..9
DayField(s, i) ==
    IF CharAt(s, i) = " " /\ DigitRun(s, i + 1) = 1 /\ NumAt(s, i + 1, 1) >= 1
    THEN [len |-> 2, val |-> NumAt(s, i + 1, 1)]
    ELSE NumField(s, i, 1, 31, 1, 9)

\* the directives after %Y, in order: -%m -%d \s+%H :%M :%S
Directive(s, i, k) ==
    CASE k = 1 -> NumField(s, i, 1, 12, 1, 9)
      [] k = 2 -> DayField(s, i)
      [] k = 3 -> NumField(s, i, 0, 23, 0, 9)
      [] k = 4 -> NumField(s, i, 0, 59, 0, 9)
      [] k = 5 -> NumField(s, i, 0, 61, 0, 9)

\* length of the separator before directive k at position i, 0 when absent
SeparatorLen(s, i, k) ==
    CASE k \in {1, 2} -> IF CharAt(s, i) = "-" THEN 1 ELSE 0
      [] k = 3        -> SpaceRun(s, i)
      [] k \in {4, 5} -> IF CharAt(s, i) = ":" THEN 1 ELSE 0

\* the values of the directives from the k-th on, appended to vals; <<>> when
\* the text does not match or characters remain after the last directive
RECURSIVE MatchFrom(_, _, _, _)
RECURSIVE MatchDirective(_, _, _, _)
RECURSIVE MatchNext(_, _, _, _, _)
MatchFrom(s, i, k, vals) ==
    IF k > 5 THEN (IF i = Len(s) + 1 THEN vals ELSE <<>>)
    ELSE IF SeparatorLen(s, i, k) = 0 THEN <<>>
    ELSE MatchDirective(s, i + SeparatorLen(s, i, k), k, vals)

MatchDirective(s, i, k, vals) == MatchNext(s, i, k, vals, Directive(s, i, k))

MatchNext(s, i, k, vals, f) ==
    IF f.len = 0 THEN <<>>
    ELSE MatchFrom(s, i + f.len, k + 1, Append(vals, f.val))

\* the datetime of the matched values <<Y, m, d, H, M, S>>; the datetime
\* constructor validates the ranges of the fields
MakeDatetime(v) ==
    IF /\ Len(v) = 6
       /\ v[1] >= MINYEAR
       /\ v[3] <= DaysInMonth(v[1], v[2])
       /\ v[6] <= 59
    THEN [ok |-> TRUE,
          dt |-> [year |-> v[1], month |-> v[2], day |-> v[3],
                  hour |-> v[4], minute |-> v[5], second |-> v[6]]]
    ELSE ParseError

\* datetime.strptime(s, '%Y-%m-%d %H:%M:%S') on an already stripped text
strptime(s) ==
    MakeDatetime(IF DigitRun(s, 1) = 4
                 THEN MatchFrom(s, 5, 1, <<NumAt(s, 1, 4)>>)
                 ELSE <<>>)

\* n as exactly two decimal digits
Pad2(n) == <<Digits[(n \div 10) + 1], Digits[(n % 10) + 1]>>

\* n (1..9999) as four decimal digits
Pad4(n) == Pad2(n \div 100) \o Pad2(n % 100)

RECURSIVE Decimal(_)
Decimal(n) ==
    IF n < 10 THEN <<Digits[n + 1]>>
    ELSE Decimal(n \div 10) \o <<Digits[(n % 10) + 1]>>

\* %Y of strftime: the C library decides whether a year below 1000 is
\* zero-padded to four digits (padsYear) or printed as it is.
FormatYear(y, padsYear) == IF padsYear THEN Pad4(y) ELSE Decimal(y)

\* dt.strftime('%Y-%m-%d %H:%M:%S')
strftime(dt, padsYear) ==
    FormatYear(dt.year, padsYear) \o <<"-">> \o Pad2(dt.month) \o <<"-">>
        \o Pad2(dt.day) \o <<" ">> \o Pad2(dt.hour) \o <<":">>
        \o Pad2(dt.minute) \o <<":">> \o Pad2(dt.second)

\* datetime + timedelta(days, seconds = 0): the sum is normalised to
\* (days, seconds) and split again into a date and a time of day
DatetimeAddOverflows(dt, days) ==
    DateAddOverflows([year |-> dt.year, month |-> dt.month, day |-> dt.day], days)

Combine(date, secs) ==
    [year |-> date.year, month |-> date.month, day |-> date.day,
     hour |-> secs \div 3600, minute |-> (secs % 3600) \div 60,
     second |-> secs % 60]

\* mutant: the sum keeps the date but loses the time of day
DatetimeAdd_DropsTime(dt, days) ==
    Combine(ord2ymd(ymd2ord(dt.year, dt.month, dt.day) + days), 0)

DatetimeAdd(dt, days) ==
    Combine(ord2ymd(ymd2ord(dt.year, dt.month, dt.day) + days),
            dt.hour * 3600 + dt.minute * 60 + dt.second)

\* the body of rebase_timestamp after strptime returned p
RebaseParsed(p, day_offset, padsYear) ==
    IF ~p.ok THEN NoneVal
    ELSE IF DatetimeAddOverflows(p.dt, day_offset) THEN NoneVal
    ELSE strftime(DatetimeAdd(p.dt, day_offset), padsYear)

\* rebase_timestamp(original_ts_str, day_offset): the rebased text, or None
\* when any step raises (None has no strip(), the text does not parse, the
\* sum is out of range)
rebase_timestamp(original_ts_str, day_offset, padsYear) ==
    IF original_ts_str = NoneVal THEN NoneVal
    ELSE RebaseParsed(strptime(Strip(original_ts_str)), day_offset, padsYear)

(***************************************************************************)
(* CSV rows as csv.DictReader and csv.DictWriter see them.                 *)
(* A file is [exists, readable, header, rows]: header is the first line    *)
(* (a sequence of column names, <<>> for a file without any line), rows    *)
(* are the following non-blank lines, each a sequence of field texts.      *)
(***************************************************************************)
Absent == [exists |-> FALSE, readable |-> FALSE, header |-> <<>>, rows |-> <<>>]

File(header, rows) ==
    [exists |-> TRUE, readable |-> TRUE, header |-> header, rows |-> rows]

\* a file that exists but cannot be opened for reading
Unreadable == [exists |-> TRUE, readable |-> FALSE, header |-> <<>>, rows |-> <<>>]

Keys(fieldnames) == {fieldnames[i] : i \in 1..Len(fieldnames)}

LastIndex(fieldnames, key) ==
    CHOOSE i \in 1..Len(fieldnames) :
        /\ fieldnames[i] = key
        /\ \A j \in (i + 1)..Len(fieldnames) : fieldnames[j] # key

\* DictReader.__next__: dict(zip(fieldnames, row)), missing fields get
\* restval = None, surplus fields are stored under restkey = None (extras).
DictRow(fieldnames, raw) ==
    [vals |-> [k \in Keys(fieldnames) |->
                 IF LastIndex(fieldnames, k) <= Len(raw)
                 THEN raw[LastIndex(fieldnames, k)] ELSE NoneVal],
     extras |-> Len(raw) > Len(fieldnames)]

\* 'Timestamp' in row
HasTimestamp(row) == "Timestamp" \in DOMAIN row.vals

\* DictWriter.writerow: the values in fieldnames order, None written as the
\* empty text (ValueError on extras is raised before, see StreamRows)
WrittenRow(fieldnames, row) ==
    [i \in 1..Len(fieldnames) |->
        IF row.vals[fieldnames[i]] = NoneVal THEN <<>> ELSE row.vals[fieldnames[i]]]

(***************************************************************************)
(* File Scanner: detect_date_range.                                        *)
(***************************************************************************)
\* the accumulator [min, max, count] after a row of date d
ScanDate(acc, d) ==
    [min   |-> IF acc.min = NoneDate \/ DateLT(d, acc.min) THEN d ELSE acc.min,
     max   |-> IF acc.max = NoneDate \/ DateLT(acc.max, d) THEN d ELSE acc.max,
     count |-> acc.count + 1]

\* dt.date()
DateOf(dt) == [year |-> dt.year, month |-> dt.month, day |-> dt.day]

ScanParsed(acc, p) == IF ~p.ok THEN acc ELSE ScanDate(acc, DateOf(p.dt))

\* one iteration of the scan loop: rows without the column, with None in it
\* or with a text that does not parse leave the accumulator as it is
ScanRow(acc, row) ==
    IF ~HasTimestamp(row) THEN acc
    ELSE IF row.vals["Timestamp"] = NoneVal THEN acc
    ELSE ScanParsed(acc, strptime(Strip(row.vals["Timestamp"])))

RECURSIVE ScanRows(_, _, _)
ScanRows(acc, fieldnames, rows) ==
    IF rows = <<>> THEN acc
    ELSE ScanRows(ScanRow(acc, DictRow(fieldnames, Head(rows))), fieldnames, Tail(rows))

NoRange == [min |-> NoneDate, max |-> NoneDate, count |-> 0]

\* detect_date_range(file_path) -> (min_date, max_date, count);
\* (None, None, 0) when the file cannot be opened
detect_date_range(file) ==
    IF ~file.exists \/ ~file.readable THEN NoRange
    ELSE ScanRows(NoRange, file.header, file.rows)

(***************************************************************************)
(* Row loop of the File Rebaser (rebase_csv_file, the for loop).           *)
(***************************************************************************)
\* the rebased text of the row, None when the row is not rewritten
RebasedTs(row, day_offset, padsYear) ==
    IF HasTimestamp(row)
    THEN rebase_timestamp(row.vals["Timestamp"], day_offset, padsYear)
    ELSE NoneVal

\* mutant: the rebased text is never stored in the row
WithTimestamp_KeepsOriginal(row, rebased_ts) == row

\* the row after the body of the loop, before writer.writerow(row)
WithTimestamp(row, rebased_ts) ==
    IF rebased_ts # NoneVal
    THEN [row EXCEPT !.vals["Timestamp"] = rebased_ts]
    ELSE row

RebaseRow(row, day_offset, padsYear) ==
    WithTimestamp(row, RebasedTs(row, day_offset, padsYear))

\* rows_written after the row
Counted(rows_written, rebased_ts) ==
    IF rebased_ts # NoneVal THEN rows_written + 1 ELSE rows_written

\* the whole loop: the rows written, the counter rows_written, and whether
\* writerow raised ValueError (a row with more fields than the header)
RECURSIVE StreamRows(_, _, _, _, _)
RECURSIVE StreamRow(_, _, _, _, _, _, _)
\* mutant: writer.writerow(row) moved under `if rebased_ts:`
StreamRow_SkipsUnparsed(acc, fieldnames, rows, day_offset, padsYear, row, rebased_ts) ==
    IF row.extras
    THEN [acc EXCEPT !.rows_written = Counted(acc.rows_written, rebased_ts),
                     !.raised = TRUE]
    ELSE StreamRows([out |-> IF rebased_ts # NoneVal
                             THEN Append(acc.out,
                                         WrittenRow(fieldnames,
                                                    WithTimestamp(row, rebased_ts)))
                             ELSE acc.out,
                     rows_written |-> Counted(acc.rows_written, rebased_ts),
                     raised |-> FALSE],
                    fieldnames, Tail(rows), day_offset, padsYear)

\* mutant: each row is written in front of the rows before it
StreamRow_Reversed(acc, fieldnames, rows, day_offset, padsYear, row, rebased_ts) ==
    IF row.extras
    THEN [acc EXCEPT !.rows_written = Counted(acc.rows_written, rebased_ts),
                     !.raised = TRUE]
    ELSE StreamRows([out |-> <<WrittenRow(fieldnames,
                                          WithTimestamp(row, rebased_ts))>> \o acc.out,
                     rows_written |-> Counted(acc.rows_written, rebased_ts),
                     raised |-> FALSE],
                    fieldnames, Tail(rows), day_offset, padsYear)

StreamRows(acc, fieldnames, rows, day_offset, padsYear) ==
    IF rows = <<>> THEN acc
    ELSE StreamRow(acc, fieldnames, rows, day_offset, padsYear,
                   DictRow(fieldnames, Head(rows)),
                   RebasedTs(DictRow(fieldnames, Head(rows)), day_offset, padsYear))

StreamRow(acc, fieldnames, rows, day_offset, padsYear, row, rebased_ts) ==
    IF row.extras
    THEN [acc EXCEPT !.rows_written = Counted(acc.rows_written, rebased_ts),
                     !.raised = TRUE]
    ELSE StreamRows([out |-> Append(acc.out,
                                    WrittenRow(fieldnames,
                                               WithTimestamp(row, rebased_ts))),
                     rows_written |-> Counted(acc.rows_written, rebased_ts),
                     raised |-> FALSE],
                    fieldnames, Tail(rows), day_offset, padsYear)

EmptyStream == [out |-> <<>>, rows_written |-> 0, raised |-> FALSE]

(***************************************************************************)
(* State of one run of rebase_directory(input_dir, output_dir).            *)
(***************************************************************************)
VARIABLES
    csv_files,          \* list(Path(input_dir).glob('*.csv')), as file names
    srcFs,              \* source directory: file name -> file
    outFs,              \* output directory: path -> file
    outFs0,             \* the output directory before the run
    padsYear,           \* platform: strftime zero-pads %Y below 1000
    phase,              \* position of the orchestrator
    idx,                \* files scanned so far (loop index of the scan)
    file_info,          \* file name -> (min_dt, max_dt, count), valid files
    min_date_overall, max_date_overall, total_records,
    today, day_offset,
    task,               \* per file: the pool task running process_file
    results, processed, \* the report and the loop counter of the collector
    faults,             \* I/O faults injected so far
    codec,              \* a single call of rebase_timestamp, see SpecCodec
    max_workers,        \* max_workers argument of rebase_directory
    twin                \* two calls of rebase_csv_file on one output_path, see SpecTwin

vars == <<codec, twin, max_workers, csv_files, srcFs, outFs, outFs0, padsYear, phase, idx,
          file_info, min_date_overall, max_date_overall, total_records,
          today, day_offset, task, results, processed, faults>>

Names == {<<i, ".csv">> : i \in 1..NumFiles}

\* mutant: the rebaser writes straight to output_path
TempOutput_InPlace(output_path) == output_path

\* mutant: every file is written under one name
OutputPath_OneName(name) == <<1, ".csv">>

\* os.path.join(output_dir, csv_file.name), relative to output_dir
OutputPath(name) == name

\* temp_output = output_path + '.tmp'
TempOutput(output_path) == output_path \o <<".tmp">>

Paths == {OutputPath(n) : n \in Names} \cup {TempOutput(OutputPath(n)) : n \in Names}

\* input_path of main: the directory of one site
InputDir == <<"wind_processed", "elt1">>

\* mutant: the output is written next to the input files
OutputDir_SameDir(input_path) == input_path

\* output_path = input_path + '_rebased'
OutputDir(input_path) == input_path \o <<"_rebased">>

\* the source directory after the paths of output_dir have become out: the
\* two directories share their files only when they are one directory
SourceAfter(output_dir, out) ==
    IF output_dir = InputDir
    THEN [p \in DOMAIN srcFs \cup Paths |-> IF p \in Paths THEN out[p] ELSE srcFs[p]]
    ELSE srcFs

Today1 == [year |-> 2025, month |-> 3, day |-> 1]
Today2 == [year |-> 2025, month |-> 1, day |-> 1]
Today3 == [year |-> 2024, month |-> 12, day |-> 31]

\* get_today_utc(): the values datetime.utcnow().date() takes in the model
Todays == {Today1, Today2, Today3}

H3 == <<"Timestamp", "Value", "Status">>

In_A == File(H3, << <<TS_2025_01_01_16, V_123_4, V_OK>>,
                    <<TS_garbage, V_7, V_BAD>>,
                    <<TS_2025_01_05_23, V_7, V_OK>> >>)
In_B == File(H3, << <<TS_2025_01_03_00, V_7, V_OK>>,
                    <<TS_2025_01_10_12, V_123_4, V_OK>> >>)
In_B2 == File(H3, << <<TS_spaced, V_7, V_OK>> >>)
In_C == File(<<"Value", "Timestamp">>,
             << <<V_7, TS_unpadded>>, <<V_123_4>>, <<V_7, TS_spaceday>> >>)
In_D == File(<<"Value", "Status">>, << <<V_7, V_OK>> >>)
In_E == File(<<>>, <<>>)
In_F == File(H3, << <<TS_2024_02_29_00, V_7, V_OK>>,
                    <<TS_2024_02_28_07, V_7, V_OK, V_BAD>> >>)
In_G == File(H3, << <<TS_iso_T, V_7, V_OK>>, <<TS_feb30, V_7, V_BAD>> >>)
In_H == File(H3, << <<TS_2024_02_28_07, V_7, V_OK>>,
                    <<TS_2024_02_29_00, V_7, V_OK>>,
                    <<TS_2023_12_31_23, V_123_4>> >>)
In_S == File(H3, << <<TS_2025_01_01_16, V_7, V_OK>>,
                    <<TS_9999_12_31_00, V_7, V_OK>> >>)

\* contents of the first file, and of the files after it
FirstInputs == {In_A, In_C, In_D, In_E, In_F, In_G, In_H, In_S}
OtherInputs == {In_B, In_B2, Unreadable}

Old == File(H3, << <<TS_2023_12_31_23, V_7, V_BAD>> >>)
Stale == File(<<"Timestamp">>, << <<TS_garbage>> >>)

\* the output directory before the run: empty, holding an earlier output
\* under every name, or also a left-over temporary file
PriorOutputs ==
    { [p \in Paths |-> Absent],
      [p \in Paths |-> IF p \in Names THEN Old ELSE Absent],
      [p \in Paths |-> IF p \in Names THEN Old ELSE Stale] }

\* a pool task: pc is its position in rebase_csv_file, result its return
\* value; error records what went wrong ("open", "header", "row", "write",
\* "remove", "move"), committed that the move to output_path was done
NoTask == [pc |-> "queued", rows_written |-> 0, result |-> FALSE,
           error |-> "none", committed |-> FALSE]

NoResults == [total |-> 0, success |-> 0, failed |-> 0]

NoCall == [pc |-> "none", text |-> <<>>, day_offset |-> 0, result |-> NoneVal]

NoTwin == [pc |-> <<"none", "none">>, fd |-> <<0, 0>>, pos |-> <<0, 0>>,
           inode |-> <<>>, temp |-> 0, out |-> 0]

Init ==
    /\ \E n \in 0..NumFiles :
          /\ csv_files = [i \in 1..n |-> <<i, ".csv">>]
          /\ srcFs \in [{<<i, ".csv">> : i \in 1..n} -> FirstInputs \cup OtherInputs]
          /\ \A i \in 1..n : i > 1 => srcFs[<<i, ".csv">>] \in OtherInputs
    /\ outFs0 \in PriorOutputs
    /\ outFs = outFs0
    \* every date a batch formats is today or later, so %Y never sees a year
    \* below 1000 here
    /\ padsYear = TRUE
    /\ phase = "Start"
    /\ idx = 0
    /\ file_info = <<>>
    /\ min_date_overall = NoneDate
    /\ max_date_overall = NoneDate
    /\ total_records = 0
    /\ today = NoneDate
    /\ day_offset = 0
    /\ task = [n \in Names |-> NoTask]
    /\ results = NoResults
    /\ processed = 0
    /\ faults = 0
    /\ codec = NoCall
    /\ twin = NoTwin
    /\ max_workers \in 1..MaxWorkers

(***************************************************************************)
(* Batch Orchestrator: rebase_directory up to the start of the pool.       *)
(***************************************************************************)
\* os.makedirs(output_dir, exist_ok=True); csv_files = list(glob('*.csv'));
\* without any file the report {'total': 0, ...} is returned at once
Enumerate ==
    /\ phase = "Start"
    /\ IF Len(csv_files) = 0
       THEN /\ phase' = "NoFiles"
            /\ results' = [total |-> 0, success |-> 0, failed |-> 0]
       ELSE /\ phase' = "Scanning"
            /\ UNCHANGED results
    /\ UNCHANGED <<codec, twin, max_workers, csv_files, srcFs, outFs, outFs0, padsYear, idx, file_info,
                   min_date_overall, max_date_overall, total_records, today,
                   day_offset, task, processed, faults>>

\* `if min_dt:` a date is always true, None is false
Truthy(date) == date # NoneDate

\* the body of the scan loop for csv_file with scan result r
ScanInto(csv_file, r) ==
    IF Truthy(r.min)
    THEN /\ file_info' = [n \in DOMAIN file_info \cup {csv_file} |->
                            IF n = csv_file THEN r ELSE file_info[n]]
         /\ total_records' = total_records + r.count
         /\ min_date_overall' =
              IF min_date_overall = NoneDate \/ DateLT(r.min, min_date_overall)
              THEN r.min ELSE min_date_overall
         /\ max_date_overall' =
              IF max_date_overall = NoneDate \/ DateLT(max_date_overall, r.max)
              THEN r.max ELSE max_date_overall
    ELSE UNCHANGED <<file_info, total_records, min_date_overall, max_date_overall>>

\* one iteration of the scan loop (lines 145-157)
ScanFile ==
    /\ phase = "Scanning"
    /\ idx < Len(csv_files)
    /\ idx' = idx + 1
    /\ ScanInto(csv_files[idx + 1], detect_date_range(srcFs[csv_files[idx + 1]]))
    /\ UNCHANGED <<codec, twin, max_workers, csv_files, srcFs, outFs, outFs0, padsYear, phase,
                   today, day_offset, task, results, processed, faults>>

\* `if not file_info:`
NoDatesDetected(info) == DOMAIN info = {}

\* lines 159-161: no file yielded a date, the batch returns without rebasing
\* mutant: the aborted batch reports no failed file
AbortReport_NoneFailed(files) == [total |-> Len(files), success |-> 0, failed |-> 0]

\* line 161: {'total': len(csv_files), 'success': 0, 'failed': len(csv_files)}
AbortReport(files) == [total |-> Len(files), success |-> 0, failed |-> Len(files)]

AbortBatch ==
    /\ phase = "Scanning"
    /\ idx = Len(csv_files)
    /\ NoDatesDetected(file_info)
    /\ phase' = "Aborted"
    /\ results' = AbortReport(csv_files)
    /\ UNCHANGED <<codec, twin, max_workers, csv_files, srcFs, outFs, outFs0, padsYear, idx,
                   file_info, min_date_overall, max_date_overall, total_records,
                   today, day_offset, task, processed, faults>>

\* mutant: the difference taken the wrong way round
Offset_Reversed(today_utc, min_date) == DateDiff(min_date, today_utc)

\* day_offset = today - min_date_overall
Offset(today_utc, min_date) == DateDiff(today_utc, min_date)

\* lines 163-164: today is read once, the offset is fixed
ComputeOffset ==
    /\ phase = "Scanning"
    /\ idx = Len(csv_files)
    /\ ~NoDatesDetected(file_info)
    /\ \E t \in Todays :
          /\ today' = t
          /\ day_offset' = Offset(t, min_date_overall)
    /\ phase' = "OffsetComputed"
    /\ UNCHANGED <<codec, twin, max_workers, csv_files, srcFs, outFs, outFs0, padsYear, idx,
                   file_info, min_date_overall, max_date_overall, total_records,
                   task, results, processed, faults>>

\* lines 166-182: the summary evaluates max_date_overall + day_offset, which
\* raises OverflowError out of rebase_directory when it passes year 9999;
\* otherwise results is initialised and every file is submitted to the pool
StartPool ==
    /\ phase = "OffsetComputed"
    /\ IF DateAddOverflows(max_date_overall, day_offset)
       THEN /\ phase' = "Raised"
            /\ UNCHANGED results
       ELSE /\ phase' = "Rebasing"
            /\ results' = [total |-> Len(csv_files), success |-> 0, failed |-> 0]
    /\ UNCHANGED <<codec, twin, max_workers, csv_files, srcFs, outFs, outFs0, padsYear, idx,
                   file_info, min_date_overall, max_date_overall, total_records,
                   today, day_offset, task, processed, faults>>

(***************************************************************************)
(* File Rebaser: rebase_csv_file, run by the pool as process_file.  The    *)
(* steps are the operations on the two directories; the row loop runs in   *)
(* one step, an I/O error may cut it after any number of rows.             *)
(***************************************************************************)
Running(n) == task[n].pc \in {"streaming", "replace", "move", "except"}

Position(n) == n[1]

\* an I/O operation may fail while the fault budget lasts
MayFault == faults < MaxFaults

\* mutant: the pool takes work while the scan is still running
PoolRunning_DuringScan == phase \in {"Scanning", "Rebasing"}

\* `with ThreadPoolExecutor(...) as executor:` work is only taken in the
\* rebase phase
PoolRunning == phase = "Rebasing"

\* mutant: the pool starts a thread for every queued file
WorkerFree_Unbounded == TRUE

\* ThreadPoolExecutor(max_workers=max_workers): a queued task starts when
\* fewer than max_workers tasks are running
WorkerFree == Cardinality({m \in Names : Running(m)}) < max_workers

\* mutant: every file is shifted from its own first date
TaskOffset_PerFile(n) ==
    IF n \in DOMAIN file_info THEN DateDiff(today, file_info[n].min) ELSE day_offset

\* day_offset as process_file passes it to rebase_csv_file (line 176)
TaskOffset(n) == day_offset

\* a worker thread takes the next work item (FIFO) and opens both files:
\* open(input_path, 'r') and open(temp_output, 'w')
StartTask(n) ==
    /\ PoolRunning
    /\ Position(n) <= Len(csv_files)
    /\ task[n].pc = "queued"
    /\ \A m \in Names : Position(m) < Position(n) => task[m].pc # "queued"
    /\ WorkerFree
    /\ \/ /\ ~srcFs[n].readable
          /\ task' = [task EXCEPT ![n].pc = "except", ![n].error = "open"]
          /\ UNCHANGED <<outFs, faults>>
       \/ /\ srcFs[n].readable
          /\ outFs' = [outFs EXCEPT ![TempOutput(OutputPath(n))] = File(<<>>, <<>>)]
          /\ task' = [task EXCEPT ![n].pc = "streaming"]
          /\ UNCHANGED faults
       \/ /\ srcFs[n].readable
          /\ MayFault
          /\ faults' = faults + 1
          /\ task' = [task EXCEPT ![n].pc = "except", ![n].error = "open"]
          /\ UNCHANGED outFs
    /\ srcFs' = SourceAfter(OutputDir(InputDir), outFs')
    /\ UNCHANGED <<codec, twin, max_workers, csv_files, outFs0, padsYear, phase, idx,
                   file_info, min_date_overall, max_date_overall, total_records,
                   today, day_offset, results, processed>>

\* lines 99-110 for input file in, temporary path tmp and row loop st
StreamInto(n, in, tmp, st) ==
    \/ /\ outFs' = [outFs EXCEPT ![tmp] = File(in.header, st.out)]
       /\ task' = [task EXCEPT
                     ![n].pc = IF st.raised THEN "except" ELSE "replace",
                     ![n].error = IF st.raised THEN "row" ELSE "none",
                     ![n].rows_written = st.rows_written]
       /\ UNCHANGED faults
    \/ /\ MayFault
       /\ faults' = faults + 1
       /\ \E k \in 0..Len(st.out) :
             outFs' = [outFs EXCEPT ![tmp] = File(in.header, SubSeq(st.out, 1, k))]
       /\ task' = [task EXCEPT ![n].pc = "except", ![n].error = "write"]

\* lines 93-110: header check, writeheader, the row loop, closing the files
Stream(n) ==
    /\ phase \in {"Rebasing", "Unwinding"}
    /\ task[n].pc = "streaming"
    /\ IF srcFs[n].header = <<>>
       THEN \* reader.fieldnames is None: return False
            /\ task' = [task EXCEPT ![n].pc = "returned", ![n].result = FALSE,
                                    ![n].error = "header"]
            /\ UNCHANGED <<outFs, faults>>
       ELSE StreamInto(n, srcFs[n], TempOutput(OutputPath(n)),
                       StreamRows(EmptyStream, srcFs[n].header, srcFs[n].rows,
                                  TaskOffset(n), padsYear))
    /\ srcFs' = SourceAfter(OutputDir(InputDir), outFs')
    /\ UNCHANGED <<codec, twin, max_workers, csv_files, outFs0, padsYear, phase, idx,
                   file_info, min_date_overall, max_date_overall, total_records,
                   today, day_offset, results, processed>>

\* lines 113-114: if os.path.exists(output_path): os.remove(output_path)
RemoveOld(n) ==
    /\ phase \in {"Rebasing", "Unwinding"}
    /\ task[n].pc = "replace"
    /\ IF outFs[OutputPath(n)].exists
       THEN \/ /\ outFs' = [outFs EXCEPT ![OutputPath(n)] = Absent]
               /\ task' = [task EXCEPT ![n].pc = "move"]
               /\ UNCHANGED faults
            \/ /\ MayFault
               /\ faults' = faults + 1
               /\ task' = [task EXCEPT ![n].pc = "except", ![n].error = "remove"]
               /\ UNCHANGED outFs
       ELSE /\ task' = [task EXCEPT ![n].pc = "move"]
            /\ UNCHANGED <<outFs, faults>>
    /\ srcFs' = SourceAfter(OutputDir(InputDir), outFs')
    /\ UNCHANGED <<codec, twin, max_workers, csv_files, outFs0, padsYear, phase, idx,
                   file_info, min_date_overall, max_date_overall, total_records,
                   today, day_offset, results, processed>>

\* `return rows_written > 0`
Succeeded(rows_written) == rows_written > 0

\* lines 115-117: shutil.move(temp_output, output_path) as a rename within
\* the directory, then the return value
Move(n) ==
    /\ phase \in {"Rebasing", "Unwinding"}
    /\ task[n].pc = "move"
    /\ LET out == OutputPath(n)
           tmp == TempOutput(OutputPath(n))
       IN  IF ~outFs[tmp].exists
           THEN /\ task' = [task EXCEPT ![n].pc = "except", ![n].error = "move"]
                /\ UNCHANGED <<outFs, faults>>
           ELSE \/ /\ outFs' = [outFs EXCEPT ![out] = outFs[tmp], ![tmp] = Absent]
                   /\ task' = [task EXCEPT
                                 ![n].pc = "returned",
                                 ![n].committed = TRUE,
                                 ![n].result = Succeeded(task[n].rows_written)]
                   /\ UNCHANGED faults
                \/ /\ MayFault
                   /\ faults' = faults + 1
                   /\ task' = [task EXCEPT ![n].pc = "except", ![n].error = "move"]
                   /\ UNCHANGED outFs
    /\ srcFs' = SourceAfter(OutputDir(InputDir), outFs')
    /\ UNCHANGED <<codec, twin, max_workers, csv_files, outFs0, padsYear, phase, idx,
                   file_info, min_date_overall, max_date_overall, total_records,
                   today, day_offset, results, processed>>

\* lines 119-123: the handler removes the temporary file and returns False;
\* an error of that os.remove leaves the handler as an exception of the task
Except(n) ==
    /\ phase \in {"Rebasing", "Unwinding"}
    /\ task[n].pc = "except"
    /\ LET tmp == TempOutput(OutputPath(n))
       IN  IF outFs[tmp].exists
           THEN \/ /\ outFs' = [outFs EXCEPT ![tmp] = Absent]
                   /\ task' = [task EXCEPT ![n].pc = "returned", ![n].result = FALSE]
                   /\ UNCHANGED faults
                \/ /\ MayFault
                   /\ faults' = faults + 1
                   /\ task' = [task EXCEPT ![n].pc = "raised"]
                   /\ UNCHANGED outFs
           ELSE /\ task' = [task EXCEPT ![n].pc = "returned", ![n].result = FALSE]
                /\ UNCHANGED <<outFs, faults>>
    /\ srcFs' = SourceAfter(OutputDir(InputDir), outFs')
    /\ UNCHANGED <<codec, twin, max_workers, csv_files, outFs0, padsYear, phase, idx,
                   file_info, min_date_overall, max_date_overall, total_records,
                   today, day_offset, results, processed>>

(***************************************************************************)
(* The collector: `for name, success in executor.map(...)` in the thread   *)
(* of rebase_directory, results in submission order.                       *)
(***************************************************************************)
\* mutant: the increment for a failed file is lost
Tally_LosesFailure(report, success) ==
    IF success THEN [report EXCEPT !.success = @ + 1] ELSE report

\* lines 185-188: results['success'] += 1 or results['failed'] += 1
Tally(report, success) ==
    IF success
    THEN [report EXCEPT !.success = @ + 1]
    ELSE [report EXCEPT !.failed = @ + 1]

Collect ==
    /\ phase = "Rebasing"
    /\ processed < Len(csv_files)
    /\ LET n == csv_files[processed + 1]
       IN  /\ task[n].pc = "returned"
           /\ processed' = processed + 1
           /\ results' = Tally(results, task[n].result)
    /\ UNCHANGED <<codec, twin, max_workers, csv_files, srcFs, outFs, outFs0, padsYear, phase,
                   idx, file_info, min_date_overall, max_date_overall,
                   total_records, today, day_offset, task, faults>>

\* the next result is an exception: map() cancels the tasks not yet started
\* and the exception leaves the loop
CollectRaise ==
    /\ phase = "Rebasing"
    /\ processed < Len(csv_files)
    /\ task[csv_files[processed + 1]].pc = "raised"
    /\ phase' = "Unwinding"
    /\ task' = [n \in Names |->
                  IF task[n].pc = "queued" /\ Position(n) <= Len(csv_files)
                  THEN [task[n] EXCEPT !.pc = "cancelled"] ELSE task[n]]
    /\ UNCHANGED <<codec, twin, max_workers, csv_files, srcFs, outFs, outFs0, padsYear, idx,
                   file_info, min_date_overall, max_date_overall, total_records,
                   today, day_offset, results, processed, faults>>

\* leaving `with ThreadPoolExecutor`: shutdown(wait=True), then the
\* exception propagates out of rebase_directory
Propagate ==
    /\ phase = "Unwinding"
    /\ \A n \in Names : ~Running(n)
    /\ phase' = "Raised"
    /\ UNCHANGED <<codec, twin, max_workers, csv_files, srcFs, outFs, outFs0, padsYear, idx,
                   file_info, min_date_overall, max_date_overall, total_records,
                   today, day_offset, task, results, processed, faults>>

\* lines 193-197: every result collected, the report is returned
Finish ==
    /\ phase = "Rebasing"
    /\ processed = Len(csv_files)
    /\ phase' = "Done"
    /\ UNCHANGED <<codec, twin, max_workers, csv_files, srcFs, outFs, outFs0, padsYear, idx,
                   file_info, min_date_overall, max_date_overall, total_records,
                   today, day_offset, task, results, processed, faults>>

Next ==
    \/ Enumerate
    \/ ScanFile
    \/ AbortBatch
    \/ ComputeOffset
    \/ StartPool
    \/ \E n \in Names : StartTask(n)
    \/ \E n \in Names : Stream(n)
    \/ \E n \in Names : RemoveOld(n)
    \/ \E n \in Names : Move(n)
    \/ \E n \in Names : Except(n)
    \/ Collect
    \/ CollectRaise
    \/ Propagate
    \/ Finish

Spec == Init /\ [][Next]_vars

(***************************************************************************)
(* The timestamp codec on its own: one call of rebase_timestamp on a text  *)
(* and a day offset, on either kind of platform.                           *)
(***************************************************************************)
CodecTexts ==
    {TS_2025_01_01_16, TS_2025_01_05_23, TS_2025_01_03_00, TS_2025_01_10_12,
     TS_2024_02_28_07, TS_2024_02_29_00, TS_2023_12_31_23, TS_2100_02_28_10,
     TS_2000_02_29_01, TS_9999_12_31_00, TS_0001_01_01_00, TS_0999_12_31_08,
     TS_unpadded, TS_spaced, TS_spaceday, TS_iso_T, TS_month13, TS_feb30,
     TS_feb29_2025, TS_hour24, TS_sec60, TS_fraction, TS_dateonly, TS_year5,
     TS_garbage, TS_empty}

CodecOffsets == {-1461, -366, -365, -59, -1, 0, 1, 59, 365, 366, 1461}

InitCodec ==
    /\ codec \in [pc : {"call"}, text : CodecTexts, day_offset : CodecOffsets,
                  result : {NoneVal}]
    /\ padsYear \in BOOLEAN
    /\ csv_files = <<>>
    /\ srcFs = <<>>
    /\ outFs0 = [p \in Paths |-> Absent]
    /\ outFs = outFs0
    /\ phase = "Start"
    /\ idx = 0
    /\ file_info = <<>>
    /\ min_date_overall = NoneDate
    /\ max_date_overall = NoneDate
    /\ total_records = 0
    /\ today = NoneDate
    /\ day_offset = 0
    /\ task = [n \in Names |-> NoTask]
    /\ results = NoResults
    /\ processed = 0
    /\ faults = 0
    /\ twin = NoTwin
    /\ max_workers = 1

CallRebaseTimestamp ==
    /\ codec.pc = "call"
    /\ codec' = [codec EXCEPT
                   !.pc = "returned",
                   !.result = rebase_timestamp(codec.text, codec.day_offset, padsYear)]
    /\ UNCHANGED <<twin, max_workers, csv_files, srcFs, outFs, outFs0, padsYear, phase, idx,
                   file_info, min_date_overall, max_date_overall, total_records,
                   today, day_offset, task, results, processed, faults>>

NextCodec == CallRebaseTimestamp

SpecCodec == InitCodec /\ [][NextCodec]_vars

(***************************************************************************)
(* Two calls of rebase_csv_file with the same output_path, one in each of  *)
(* two batches that run at the same time (lines 87-123).  Both compute the *)
(* same temp_output.  Files are inodes as on POSIX: a directory entry      *)
(* (temp, out) names an inode, an open file keeps writing to its inode     *)
(* whatever the entries do.  The content of an inode is the sequence of    *)
(* the chunks flushed to it, each tagged <<batch, number>>.                *)
(***************************************************************************)
Batches == {1, 2}

\* what a seek past the end leaves behind
Hole == <<0, 0>>

\* the output file of an earlier run
PriorContent == << <<0, 1>> >>

\* the chunks batch b flushes for the file, in order
Chunks(b) == [k \in 1..TwinChunks |-> <<b, k>>]

batchVars == <<codec, max_workers, csv_files, srcFs, outFs, outFs0, padsYear,
               phase, idx, file_info, min_date_overall, max_date_overall,
               total_records, today, day_offset, task, results, processed,
               faults>>

InitTwin ==
    /\ \E prior \in BOOLEAN :
          twin = [pc |-> <<"open", "open">>, fd |-> <<0, 0>>, pos |-> <<0, 0>>,
                  inode |-> IF prior THEN <<PriorContent>> ELSE <<>>,
                  temp |-> 0,
                  out |-> IF prior THEN 1 ELSE 0]
    /\ codec = NoCall
    /\ padsYear = TRUE
    /\ csv_files = <<>>
    /\ srcFs = <<>>
    /\ outFs0 = [p \in Paths |-> Absent]
    /\ outFs = outFs0
    /\ phase = "Start"
    /\ idx = 0
    /\ file_info = <<>>
    /\ min_date_overall = NoneDate
    /\ max_date_overall = NoneDate
    /\ total_records = 0
    /\ today = NoneDate
    /\ day_offset = 0
    /\ task = [n \in Names |-> NoTask]
    /\ results = NoResults
    /\ processed = 0
    /\ faults = 0
    /\ max_workers = 1

\* file content after a write of chunk at offset pos
WriteAt(content, pos, chunk) ==
    IF pos < Len(content)
    THEN [content EXCEPT ![pos + 1] = chunk]
    ELSE content \o [k \in 1..(pos - Len(content)) |-> Hole] \o <<chunk>>

\* line 91: open(temp_output, 'w') creates the file or truncates the one
\* that is there
TwinOpen(b) ==
    /\ twin.pc[b] = "open"
    /\ IF twin.temp = 0
       THEN twin' = [twin EXCEPT !.inode = Append(@, <<>>),
                                 !.temp = Len(twin.inode) + 1,
                                 !.fd[b] = Len(twin.inode) + 1,
                                 !.pc[b] = "write"]
       ELSE twin' = [twin EXCEPT !.inode[twin.temp] = <<>>,
                                 !.fd[b] = twin.temp,
                                 !.pc[b] = "write"]
    /\ UNCHANGED batchVars

\* lines 100-110: writeheader and writerow reach the file chunk by chunk, at
\* the position of this open file
TwinWrite(b) ==
    /\ twin.pc[b] = "write"
    /\ twin.pos[b] < TwinChunks
    /\ twin' = [twin EXCEPT
                  !.inode[twin.fd[b]] = WriteAt(@, twin.pos[b], Chunks(b)[twin.pos[b] + 1]),
                  !.pos[b] = @ + 1]
    /\ UNCHANGED batchVars

\* the end of the with block: the file is closed
TwinClose(b) ==
    /\ twin.pc[b] = "write"
    /\ twin.pos[b] = TwinChunks
    /\ twin' = [twin EXCEPT !.pc[b] = "exists"]
    /\ UNCHANGED batchVars

\* line 113: if os.path.exists(output_path)
TwinExists(b) ==
    /\ twin.pc[b] = "exists"
    /\ twin' = [twin EXCEPT !.pc[b] = IF twin.out # 0 THEN "remove" ELSE "move"]
    /\ UNCHANGED batchVars

\* line 114: os.remove(output_path), FileNotFoundError when it is gone
TwinRemove(b) ==
    /\ twin.pc[b] = "remove"
    /\ IF twin.out # 0
       THEN twin' = [twin EXCEPT !.out = 0, !.pc[b] = "move"]
       ELSE twin' = [twin EXCEPT !.pc[b] = "except"]
    /\ UNCHANGED batchVars

\* lines 115-117: shutil.move(temp_output, output_path) renames the entry,
\* replacing output_path; it raises when temp_output is gone
TwinMove(b) ==
    /\ twin.pc[b] = "move"
    /\ IF twin.temp # 0
       THEN twin' = [twin EXCEPT !.out = twin.temp, !.temp = 0,
                                 !.pc[b] = "returned"]
       ELSE twin' = [twin EXCEPT !.pc[b] = "except"]
    /\ UNCHANGED batchVars

\* lines 119-123: the handler removes temp_output when it exists
TwinExcept(b) ==
    /\ twin.pc[b] = "except"
    /\ twin' = [twin EXCEPT !.temp = 0, !.pc[b] = "failed"]
    /\ UNCHANGED batchVars

NextTwin ==
    \E b \in Batches :
        \/ TwinOpen(b)
        \/ TwinWrite(b)
        \/ TwinClose(b)
        \/ TwinExists(b)
        \/ TwinRemove(b)
        \/ TwinMove(b)
        \/ TwinExcept(b)

SpecTwin == InitTwin /\ [][NextTwin]_vars

(***************************************************************************)
(* Reference calendar for the claims: month-by-month stepping, and a reader *)
(* of a formatted timestamp that accepts a year of any number of digits.   *)
(***************************************************************************)
FirstOfNextMonth(d) ==
    IF d.month < 12 THEN [year |-> d.year, month |-> d.month + 1, day |-> 1]
    ELSE [year |-> d.year + 1, month |-> 1, day |-> 1]

LastOfPrevMonth(d) ==
    IF d.month > 1
    THEN [year |-> d.year, month |-> d.month - 1,
          day |-> DaysInMonth(d.year, d.month - 1)]
    ELSE [year |-> d.year - 1, month |-> 12, day |-> 31]

\* the date n days after d (before d when n < 0), a month at a time
RECURSIVE AddDaysRef(_, _)
AddDaysRef(d, n) ==
    IF n >= 0
    THEN IF d.day + n <= DaysInMonth(d.year, d.month)
         THEN [d EXCEPT !.day = @ + n]
         ELSE AddDaysRef(FirstOfNextMonth(d),
                         n - (DaysInMonth(d.year, d.month) - d.day + 1))
    ELSE IF d.day + n >= 1
         THEN [d EXCEPT !.day = @ + n]
         ELSE AddDaysRef(LastOfPrevMonth(d), n + d.day)

InCalendar(d) == d.year >= MINYEAR /\ d.year <= MAXYEAR

ReadStamp(text) ==
    MakeDatetime(MatchFrom(text, DigitRun(text, 1) + 1, 1,
                           <<NumAt(text, 1, DigitRun(text, 1))>>))

SameTimeOfDay(a, b) ==
    a.hour = b.hour /\ a.minute = b.minute /\ a.second = b.second

\* the stamp r read from a rebased text is the valid timestamp p shifted
\* by days
ReadIsShifted(r, p, days) ==
    /\ r.ok
    /\ SameTimeOfDay(r.dt, p.dt)
    /\ DateOf(r.dt) = AddDaysRef(DateOf(p.dt), days)

\* text is the rebased form of the valid timestamp p shifted by days
IsShifted(text, p, days) ==
    text # NoneVal /\ ReadIsShifted(ReadStamp(text), p, days)

CodecInput == strptime(Strip(codec.text))

\* C10 as stated: for every valid timestamp and every day offset the rebased
\* timestamp exists, has the time of day of the original and the date of
\* the original plus the offset.
C10_EveryOffsetShifts ==
    (codec.pc = "returned" /\ CodecInput.ok)
        => IsShifted(codec.result, CodecInput, codec.day_offset)

\* C10 (amended): for every valid timestamp and every day offset for which
\* the original date plus the offset lies in the years 1..9999, the rebased
\* timestamp has the hour, minute and second of the original and its date is
\* the original date plus the offset in days (month, year and leap-day
\* boundaries included); for any other offset rebase_timestamp returns None.
C10_ShiftKeepsTimeOfDay ==
    (codec.pc = "returned" /\ CodecInput.ok)
        => IF InCalendar(AddDaysRef(DateOf(CodecInput.dt), codec.day_offset))
           THEN IsShifted(codec.result, CodecInput, codec.day_offset)
           ELSE codec.result = NoneVal

\* a shift of 366 days over the leap day of 2024
C10_Witness ==
    /\ codec.pc = "returned"
    /\ codec.text = TS_2024_02_28_07
    /\ codec.day_offset = 366
    /\ codec.result = <<"2", "0", "2", "5", "-", "0", "2", "-", "2", "8", " ",
                        "0", "7", ":", "0", "5", ":", "0", "9">>

(***************************************************************************)
(* Reading the files for the claims: the fields of a line by position.     *)
(***************************************************************************)
Files == DOMAIN srcFs

In(n) == srcFs[n]

Out(n) == outFs[OutputPath(n)]

Before(n) == outFs0[OutputPath(n)]

\* the j-th field of a line, None when the line has no such field
FieldAt(raw, j) == IF j <= Len(raw) THEN raw[j] ELSE NoneVal

\* the timestamp field of a line under a header, None when there is none
RowTs(header, raw) ==
    IF \E j \in 1..Len(header) : header[j] = "Timestamp"
    THEN FieldAt(raw, LastIndex(header, "Timestamp"))
    ELSE NoneVal

IsValidTs(text) == text # NoneVal /\ strptime(Strip(text)).ok

\* the data rows of a file whose timestamp is present and parses
ValidRows(f) == {i \in 1..Len(f.rows) : IsValidTs(RowTs(f.header, f.rows[i]))}

\* the dates of those rows
ValidDates(f) ==
    {DateOf(p.dt) : p \in {q \in {strptime(Strip(RowTs(f.header, f.rows[i]))) :
                                     i \in 1..Len(f.rows)} : q.ok}}

\* some row of the file has a timestamp that parses
HasValidRow(f) == \E i \in 1..Len(f.rows) : IsValidTs(RowTs(f.header, f.rows[i]))

RowDate(f, i) == DateOf(strptime(Strip(RowTs(f.header, f.rows[i]))).dt)

\* the i-th row of out is the i-th row of in with its timestamp shifted
RowShifted(in, out, i, days) ==
    /\ i <= Len(out.rows)
    /\ IsShifted(RowTs(out.header, out.rows[i]),
                 strptime(Strip(RowTs(in.header, in.rows[i]))), days)

\* C1: for every file whose rebase completes, the output file has as many
\* data rows as the input file; rows whose timestamp does not parse are
\* written like any other row.
C1_RowCountPreserved ==
    \A n \in Files :
        task[n].committed => Len(Out(n).rows) = Len(In(n).rows)

\* a committed file with a row that does not parse
C1_Witness ==
    \E n \in Files :
        /\ task[n].committed
        /\ Len(In(n).rows) = 3
        /\ Cardinality(ValidRows(In(n))) = 2
        /\ Len(Out(n).rows) = 3

\* the committed files' valid rows, as <<file, row>>
RebasedRows ==
    UNION {{<<n, i>> : i \in ValidRows(In(n))} : n \in {m \in Files : task[m].committed}}

\* by how many days the timestamp of row i of file n moved
DaysMoved(n, i) ==
    DateOrd(DateOf(ReadStamp(RowTs(Out(n).header, Out(n).rows[i])).dt))
        - DateOrd(RowDate(In(n), i))

AllEqual(values) == \A a, b \in values : a = b

\* every one of the rows is shifted by the offset of the batch, and all of
\* them moved by the same number of days
UniformlyShifted(rebased) ==
    /\ \A r \in rebased : RowShifted(In(r[1]), Out(r[1]), r[2], day_offset)
    /\ AllEqual({DaysMoved(r[1], r[2]) : r \in rebased})

\* C2: within one batch every valid timestamp of every rebased file is
\* shifted by the one day offset of the batch, so two valid timestamps (of
\* one file or of two) that are d days apart before are d days apart after:
\* all of them moved by the same number of days.
C2_OffsetUniform == UniformlyShifted(RebasedRows)

\* two rebased files whose first dates differ, under a non-zero offset
C2_Witness ==
    \E n, m \in Files :
        /\ task[n].committed /\ task[m].committed
        /\ day_offset = 59
        /\ In(n) = In_A /\ In(m) = In_B
        /\ Out(n).rows[1][1] = <<"2", "0", "2", "5", "-", "0", "3", "-", "0", "1", " ",
                                 "1", "6", ":", "0", "0", ":", "0", "0">>
        /\ Out(m).rows[1][1] = <<"2", "0", "2", "5", "-", "0", "3", "-", "0", "3", " ",
                                 "0", "0", ":", "0", "0", ":", "0", "0">>

(***************************************************************************)
(* The date range of the batch, read from the input files line by line.    *)
(***************************************************************************)
\* the files that can be read and hold at least one valid row
Contributing == {n \in Files : In(n).readable /\ HasValidRow(In(n))}

Earliest(dates) == CHOOSE d \in dates : \A e \in dates : DateOrd(d) <= DateOrd(e)

Latest(dates) == CHOOSE d \in dates : \A e \in dates : DateOrd(e) <= DateOrd(d)

\* the range of a set of dates, count the number of rows they come from
RangeOf(dates, count) ==
    [min |-> Earliest(dates), max |-> Latest(dates), count |-> count]

RECURSIVE SumOfCounts(_, _)
SumOfCounts(info, files) ==
    IF files = {} THEN 0
    ELSE LET n == CHOOSE m \in files : TRUE
         IN  info[n].count + SumOfCounts(info, files \ {n})

\* the scan results are those of the files in contrib, the totals are
\* theirs, and the offset leads from the global minimum to today
RangesAndOffset(contrib) ==
    /\ DOMAIN file_info = contrib
    /\ \A n \in contrib :
          file_info[n] = RangeOf(ValidDates(In(n)), Cardinality(ValidRows(In(n))))
    /\ min_date_overall = Earliest({file_info[n].min : n \in contrib})
    /\ max_date_overall = Latest({file_info[n].max : n \in contrib})
    /\ total_records = SumOfCounts(file_info, contrib)
    /\ AddDaysRef(min_date_overall, day_offset) = today

OffsetKnown == phase \in {"OffsetComputed", "Rebasing", "Unwinding", "Done", "Raised"}

\* C3: the day offset of a batch is today's date minus the global minimum
\* date; the global minimum (maximum) is the least (greatest) of the per-file
\* minima (maxima) over exactly the files with at least one valid row, the
\* global count the sum of their valid counts; with an offset of zero or
\* less the batch goes on as with a positive one, no error is raised for it.
C3_OffsetFromGlobalMin ==
    OffsetKnown =>
        /\ RangesAndOffset(Contributing)
        /\ (day_offset <= 0 /\ phase = "Raised") => \E n \in Files : task[n].pc = "raised"

\* a batch of two files with dates that ran to its end under a negative
\* offset
C3_Witness ==
    /\ phase = "Done"
    /\ day_offset = -1
    /\ Cardinality(Contributing) = 2
    /\ total_records = 4
    /\ results.success = 2

\* the output of file n is there in full: the header, every row with all
\* its fields, the valid timestamps shifted
CompleteOutput(n) ==
    /\ n \in Files
    /\ Out(n).exists
    /\ Out(n).header = In(n).header
    /\ Len(Out(n).rows) = Len(In(n).rows)
    /\ \A i \in 1..Len(Out(n).rows) : Len(Out(n).rows[i]) = Len(In(n).header)
    /\ \A i \in ValidRows(In(n)) : RowShifted(In(n), Out(n), i, day_offset)

\* C4: in every state of a batch, a write failure in the middle of a file
\* included, the file at an output path is absent, has its content of before
\* the run, or is the complete rebased output; never a part of it.
C4_NoPartialOutput ==
    \A n \in Names :
        \/ ~Out(n).exists
        \/ Out(n) = Before(n)
        \/ CompleteOutput(n)

\* a write that failed after one row of three, the earlier output in place
C4_Witness ==
    \E n \in Files :
        /\ task[n].error = "write"
        /\ Len(In(n).rows) = 3
        /\ outFs[TempOutput(OutputPath(n))].exists
        /\ Len(outFs[TempOutput(OutputPath(n))].rows) = 1
        /\ Out(n) = Old

\* C5: when a rebase succeeds and a file was at output_path, the replacement
\* is atomic: the step that publishes the new file finds the prior file
\* still there, output_path is absent in no state between.
C5_AtomicReplace ==
    [][\A n \in Names :
          (~task[n].committed /\ task'[n].committed /\ Before(n).exists)
              => Out(n).exists]_vars

\* the rebase of file n has ended in failure
Failed(n) == task[n].pc \in {"returned", "raised"} /\ task[n].error # "none"

\* C6: when the rebase of a file fails at any step (opening or reading the
\* input, writing the temporary file, the final remove or rename), the file
\* at output_path is as it was before: its prior content, or absent.
C6_FailureLeavesOutput ==
    \A n \in Files : Failed(n) => Out(n) = Before(n)

\* no enumerated file yields a date range
NoFileYields == \A n \in Files : ~(In(n).readable /\ HasValidRow(In(n)))

\* C7: when no enumerated file yields a valid date range the batch aborts
\* before any rebase task starts: no temporary file and no output file is
\* created, removed or replaced, an empty destination directory stays empty.
C7_AbortWritesNothing ==
    NoFileYields =>
        /\ phase \in {"Start", "NoFiles", "Scanning", "Aborted"}
        /\ outFs = outFs0
        /\ \A n \in Names : task[n].pc = "queued"

\* two files that cannot be opened, the batch aborted over an empty
\* destination directory
C7_Witness ==
    /\ phase = "Aborted"
    /\ Len(csv_files) = 2
    /\ \A n \in Files : In(n) = Unreadable
    /\ \A p \in Paths : ~outFs[p].exists

\* the columns of a header other than the timestamp column
OtherColumns(header) == {j \in 1..Len(header) : header[j] # "Timestamp"}

\* C8: every row written has, in every column other than the timestamp
\* column, the value of the input row, and the output header lists the
\* columns of the input header in their order.
C8_OtherColumnsUnchanged ==
    \A n \in Files :
        task[n].committed =>
            /\ Out(n).header = In(n).header
            /\ \A i \in 1..Len(Out(n).rows) : \A j \in OtherColumns(In(n).header) :
                  FieldAt(Out(n).rows[i], j) = FieldAt(In(n).rows[i], j)

\* the errors of the operating system: open, read, write, remove, rename
IOErrors == {"open", "write", "remove", "move"}

\* C9: for a file of n data rows, k of them with a missing or unparseable
\* timestamp, the scanner does not abort and counts n - k valid rows, and the
\* rebaser writes all n rows, those k as they were and the others shifted.
C9_InvalidRowsPassThrough ==
    /\ OffsetKnown =>
          \A n \in Files :
              In(n).readable =>
                  IF n \in DOMAIN file_info
                  THEN file_info[n].count = Cardinality(ValidRows(In(n)))
                  ELSE ValidRows(In(n)) = {}
    /\ \A n \in Files :
          (task[n].pc = "returned" /\ In(n).header # <<>> /\ task[n].error \notin IOErrors)
              => /\ task[n].committed
                 /\ Len(Out(n).rows) = Len(In(n).rows)
                 /\ \A i \in 1..Len(In(n).rows) :
                       IF i \in ValidRows(In(n))
                       THEN RowShifted(In(n), Out(n), i, day_offset)
                       ELSE Out(n).rows[i] = In(n).rows[i]

\* C11: no step of a batch run writes, removes or renames a file of the
\* source directory: from the first step to the end of the run (Done or
\* Aborted, whatever failed) every input file keeps its content.
C11_SourceUntouched == [][srcFs' = srcFs]_vars

\* a finished batch that published one file and failed on another
C11_Witness ==
    /\ phase = "Done"
    /\ \E n \in Files : task[n].committed /\ Before(n).exists
    /\ \E n \in Files : Failed(n)

\* C12: no error of one file (unreadable file, missing header, write error,
\* rename error) leaves the orchestrator as an exception: the run does not
\* end raised over a file's error, and in the report of a finished run every
\* file whose rebase failed is among the failed ones.
C12_ErrorsStayInReport ==
    /\ ~(phase = "Raised" /\ \E n \in Files : task[n].error # "none")
    /\ phase = "Done" => results.failed >= Cardinality({n \in Files : Failed(n)})

\* C13: once a file has yielded a date range the batch does not abort, every
\* enumerated file is handed to the rebaser (none is cancelled), and when the
\* run has ended every file was rebased and counted, whatever failed.
C13_EveryFileRebased ==
    /\ Contributing # {} => phase # "Aborted"
    /\ \A n \in Files : task[n].pc # "cancelled"
    /\ phase \in {"Done", "Raised"} =>
          /\ processed = Len(csv_files)
          /\ \A n \in Files : task[n].pc = "returned"

\* the range [a, b] moved by days is the range of the dates in shifted
RangeShifted(dates, shifted, days) ==
    /\ shifted # {}
    /\ Earliest(shifted) = AddDaysRef(Earliest(dates), days)
    /\ Latest(shifted) = AddDaysRef(Latest(dates), days)

\* the dates span the range [first, last]
SpansRange(dates, first, last) ==
    dates # {} /\ Earliest(dates) = first /\ Latest(dates) = last

\* the published files that hold a valid row
RebasedFiles == {n \in Contributing : task[n].committed}

\* C14: for every rebased file whose valid timestamps span [a, b], the valid
\* timestamps of its output span [a + offset, b + offset]; the output of the
\* file that holds the global minimum starts at today, and when every such
\* file is rebased the outputs together span [today, global max + offset].
C14_RangeShifted ==
    /\ \A n \in RebasedFiles :
          /\ RangeShifted(ValidDates(In(n)), ValidDates(Out(n)), day_offset)
          /\ file_info[n].min = min_date_overall
                => Earliest(ValidDates(Out(n))) = today
    /\ (RebasedFiles # {} /\ RebasedFiles = Contributing) =>
          SpansRange(UNION {ValidDates(Out(n)) : n \in RebasedFiles},
                     today, AddDaysRef(max_date_overall, day_offset))

\* dates 2025-01-01 to 2025-01-05 rebased on 2025-03-01: the output spans
\* 2025-03-01 to 2025-03-05
C14_Witness ==
    \E n \in RebasedFiles :
        /\ In(n) = In_A
        /\ today = Today1
        /\ Earliest(ValidDates(Out(n))) = [year |-> 2025, month |-> 3, day |-> 1]
        /\ Latest(ValidDates(Out(n))) = [year |-> 2025, month |-> 3, day |-> 5]

\* the file opens but none of its rows has a valid timestamp
NoValidData(f) == f.readable /\ ~HasValidRow(f)

\* the scan loop has called detect_date_range on file n
Scanned(n) == phase # "Start" /\ Position(n) <= idx

\* C15: a file that opens but holds no valid timestamp row is told apart from
\* a file that cannot be opened: the scanner's results for the two differ,
\* and the report of a finished run counts as failed only the files whose
\* rebase met an error, not the files without valid data.
C15_NoDataIsNotFailure ==
    /\ \A n, m \in Files :
          (Scanned(n) /\ Scanned(m) /\ NoValidData(In(n)) /\ ~In(m).readable)
              => detect_date_range(In(n)) # detect_date_range(In(m))
    /\ phase = "Done" => results.failed <= Cardinality({n \in Files : Failed(n)})

\* C16: for every text s the parser accepts, parse(format(parse(s))) is
\* parse(s); hence a rebase by 0 days applied to the result of a rebase by 0
\* days gives that same text again.
C16_RoundTrip ==
    (codec.pc = "returned" /\ CodecInput.ok) =>
        /\ strptime(strftime(CodecInput.dt, padsYear)) = CodecInput
        /\ codec.day_offset = 0
              => rebase_timestamp(codec.result, 0, padsYear) = codec.result

\* some rebase task has begun
RebaseBegun == \E n \in Names : task[n].pc # "queued"

\* every enumerated file is scanned and the offset is the one of the batch
ScanComplete ==
    /\ idx = Len(csv_files)
    /\ phase \in {"Rebasing", "Unwinding", "Done", "Raised"}
    /\ today # NoneDate
    /\ day_offset = Offset(today, min_date_overall)

\* C17: no rebase of a file begins before every enumerated file is scanned
\* and the day offset is computed, and no step changes the offset once a
\* rebase task has begun.
C17_ScanBeforeRebase ==
    /\ [](RebaseBegun => ScanComplete)
    /\ [][RebaseBegun => day_offset' = day_offset]_vars

\* the first task streams while the second is still queued
C17_Witness ==
    /\ phase = "Rebasing"
    /\ Len(csv_files) = 2
    /\ day_offset # 0
    /\ task[csv_files[1]].pc = "streaming"
    /\ task[csv_files[2]].pc = "queued"

\* the steps of the batch state machine; the first two lead into it from the
\* enumeration of the files
PhaseSteps ==
    {<<"Start", "Scanning">>, <<"Start", "NoFiles">>,
     <<"Scanning", "OffsetComputed">>, <<"OffsetComputed", "Rebasing">>,
     <<"Rebasing", "Done">>, <<"Scanning", "Aborted">>}

\* C18: the state of a batch only moves along Scanning -> OffsetComputed ->
\* Rebasing -> Done; Aborted is entered only from Scanning and only when no
\* file yielded a valid date; no state is entered again, Done and Aborted
\* are left by no step.
C18_PhaseOrder ==
    [][phase' # phase =>
          /\ <<phase, phase'>> \in PhaseSteps
          /\ phase' = "Aborted" => Contributing = {}]_vars

\* the rebase of file n is over
Ended(n) == task[n].pc \in {"returned", "raised", "cancelled"}

\* rebase_directory has returned or raised: no step of the batch is left
Halted == phase \in {"NoFiles", "Aborted", "Done", "Raised"}

\* C19: every batch over finitely many finite files ends in Done or Aborted
\* (or with the empty report of a directory without files): when no step is
\* left the batch is in one of these; and no file is scanned twice or
\* rebased twice: the scan only advances, a task that has begun or ended is
\* never started again.
C19_EndsDoneOrAborted ==
    /\ [](Halted => phase \in {"Done", "Aborted", "NoFiles"})
    /\ [][/\ idx' \in {idx, idx + 1}
          /\ \A n \in Names :
                /\ task[n].pc # "queued" => task'[n].pc # "queued"
                /\ Ended(n) => task'[n] = task[n]]_vars

\* C20: after the rebase of a file has ended in failure (input unreadable,
\* missing header row, write error, rename error) no temporary file of that
\* file is left in the output directory.
C20_NoTempAfterFailure ==
    \A n \in Files : Failed(n) => ~outFs[TempOutput(OutputPath(n))].exists

\* the line the rebaser writes for one line of the input
Transformed(header, raw) ==
    WrittenRow(header, RebaseRow(DictRow(header, raw), day_offset, padsYear))

\* C21: within one file the rebaser is a 1:1 transform in order: the output
\* has one row for each input row, and for every i its i-th data row is the
\* transform of the i-th data row of the input.
C21_RowOrderPreserved ==
    \A n \in Files :
        task[n].committed =>
            /\ Len(Out(n).rows) = Len(In(n).rows)
            /\ \A i \in 1..Len(In(n).rows) :
                  Out(n).rows[i] = Transformed(In(n).header, In(n).rows[i])

\* three rows with different values, the unparseable one still in the middle
C21_Witness ==
    \E n \in Files :
        /\ task[n].committed
        /\ In(n) = In_A
        /\ day_offset # 0
        /\ Out(n).rows[1][2] = V_123_4
        /\ Out(n).rows[2] = In_A.rows[2]
        /\ Out(n).rows[3][3] = V_OK
        /\ Out(n).rows[3][1] # In_A.rows[3][1]

\* C22: a row whose timestamp does not parse never makes its file a failed
\* one: a file whose rebase meets no error is reported as succeeded, however
\* many of its rows (all of them included) have an unparseable timestamp.
C22_UnparsedRowsNeverFail ==
    \A n \in Files :
        (task[n].pc = "returned" /\ task[n].error = "none") => task[n].result

\* the files whose rebase returned success, and those whose rebase returned
\* failure
ReturnedSuccess == {n \in Files : task[n].pc = "returned" /\ task[n].result}

ReturnedFailure == {n \in Files : task[n].pc = "returned" /\ ~task[n].result}

\* C23: whatever the interleaving and the completion order of the workers,
\* the final report counts as success the files whose rebase returned
\* success and as failed those whose rebase returned failure, success +
\* failed = total; while results are collected the two counters add up to
\* the number collected, and no step of a worker changes the counters.
C23_ReportCountsResults ==
    /\ [](phase = "Done" =>
             /\ results.success = Cardinality(ReturnedSuccess)
             /\ results.failed = Cardinality(ReturnedFailure)
             /\ results.success + results.failed = results.total
             /\ results.total = Len(csv_files))
    /\ [](phase = "Rebasing" => results.success + results.failed = processed)
    /\ [][results' = results \/ task' = task]_vars

\* the second file has returned while the first is still being written:
\* nothing is counted yet
C23_Witness ==
    /\ phase = "Rebasing"
    /\ Len(csv_files) = 2
    /\ task[csv_files[1]].pc = "streaming"
    /\ task[csv_files[2]].pc = "returned"
    /\ processed = 0

\* the paths the worker of file n writes, removes or renames
PathsOf(n) == {OutputPath(n), TempOutput(OutputPath(n))}

\* C24: within one batch two workers that run at the same time never touch
\* the same path: their output paths differ, their temporary paths differ,
\* no temporary path of one is the output path of the other, and a step
\* that changes a path is a step of the worker that owns the path.
C24_WorkersDisjointPaths ==
    /\ [](\A n, m \in Files :
             (n # m /\ Running(n) /\ Running(m)) =>
                 /\ OutputPath(n) # OutputPath(m)
                 /\ TempOutput(OutputPath(n)) # TempOutput(OutputPath(m))
                 /\ TempOutput(OutputPath(n)) # OutputPath(m)
                 /\ PathsOf(n) \cap PathsOf(m) = {})
    /\ [][\A p \in Paths :
             outFs'[p] # outFs[p] =>
                 \E n \in Files : task'[n] # task[n] /\ p \in PathsOf(n)]_vars

\* two workers are between the write of their temporary file and its rename
C24_Witness ==
    /\ Len(csv_files) = 2
    /\ task[csv_files[1]].pc = "replace"
    /\ task[csv_files[2]].pc = "move"
    /\ outFs[TempOutput(OutputPath(csv_files[1]))] # Absent
    /\ outFs[TempOutput(OutputPath(csv_files[2]))] # Absent

\* C25: at every moment of a batch, while it scans and while it rebases, no
\* more files are being processed at once than max_workers, however many
\* files were enumerated; a file only starts when a worker is free.
C25_WorkerLimit ==
    /\ [](Cardinality({n \in Names : Running(n)}) <= max_workers)
    /\ [](phase = "Scanning" => \A n \in Names : ~Running(n))
    /\ [][\A n \in Names :
             (~Running(n) /\ Running(n)') =>
                 Cardinality({m \in Names : Running(m)}) < max_workers]_vars

\* more files than workers: the second file waits in the queue while the
\* only worker writes the first
C25_Witness ==
    /\ phase = "Rebasing"
    /\ Len(csv_files) > max_workers
    /\ Cardinality({n \in Names : Running(n)}) = max_workers
    /\ \E n \in Files : task[n].pc = "queued"

\* the valid_count the scanner reported for file n
ScannerCount(n) == IF n \in DOMAIN file_info THEN file_info[n].count ELSE 0

\* C26: the scanner and the rebaser agree on the valid rows: a file rebased
\* to its end has as many timestamps rewritten as the scanner counted valid
\* rows; and in the report of a finished batch a file is a success exactly
\* when its rebase met no I/O error and the file has a valid row.
C26_ScannerRebaserAgree ==
    /\ \A n \in Files :
          (task[n].pc = "returned" /\ task[n].error = "none") =>
              /\ task[n].rows_written = ScannerCount(n)
              /\ task[n].rows_written = Cardinality(ValidRows(In(n)))
    /\ phase = "Done" =>
          \A n \in Files :
              task[n].result <=>
                  (task[n].error \notin IOErrors /\ HasValidRow(In(n)))

\* C27: for every file the report of a completed batch counts as failed,
\* the file at its output path is as it was before the run: its prior
\* content, or absent; a failed file never has a new output published.
C27_FailedFileNotPublished ==
    phase = "Done" =>
        \A n \in Files :
            (task[n].pc = "returned" /\ ~task[n].result) =>
                /\ Out(n) = Before(n)
                /\ ~task[n].committed

(***************************************************************************)
(* A second batch on the same day whose source is the output directory of  *)
(* the first: its scan, its offset and its row loop, by the operators of   *)
(* the first.                                                              *)
(***************************************************************************)
\* glob('*.csv') in the output directory of the first run
SecondSource == {n \in Names : Out(n).exists}

SecondRange(n) == detect_date_range(Out(n))

\* the files of the second run for which `if min_dt:` holds
SecondContributing == {n \in SecondSource : Truthy(SecondRange(n).min)}

SecondMin == Earliest({SecondRange(n).min : n \in SecondContributing})

SecondOffset == Offset(today, SecondMin)

\* the row loop of the second run on file n
SecondStream(n) ==
    StreamRows(EmptyStream, Out(n).header, Out(n).rows, SecondOffset, padsYear)

\* the second run finds dates, computes an offset of 0 and writes every row
\* as it reads it
SecondRunChangesNothing ==
    /\ SecondContributing # {}
    /\ SecondOffset = 0
    /\ \A n \in SecondSource :
          (Out(n).readable /\ Out(n).header # <<>>) =>
              /\ ~SecondStream(n).raised
              /\ SecondStream(n).out = Out(n).rows

\* the batch is complete and the file holding the global minimum date was
\* rebased successfully
MinimumFileRebased ==
    /\ phase = "Done"
    /\ \E n \in DOMAIN file_info :
          /\ file_info[n].min = min_date_overall
          /\ task[n].pc = "returned"
          /\ task[n].result

\* C28 as stated: after a complete batch in which the file with the global
\* minimum date was rebased successfully, a second batch on the same day
\* over the first one's output directory computes offset 0 and writes rows
\* identical to the rows it reads.
C28_RerunIdempotent == MinimumFileRebased => SecondRunChangesNothing

\* every file in the output directory was published by the first run
OnlyPublishedFiles == \A n \in SecondSource : n \in Files /\ task[n].committed

\* C28, amended: the same, provided the output directory of the first run
\* holds no file but the ones that run published; a file left there from
\* earlier with an older date moves the second run's minimum.
C28_RerunIdempotentFresh ==
    (MinimumFileRebased /\ OnlyPublishedFiles) => SecondRunChangesNothing

\* two files published under an offset of 59 days, over earlier outputs; the
\* second run would read rows that differ from the first run's input
C28_Witness ==
    /\ MinimumFileRebased
    /\ OnlyPublishedFiles
    /\ day_offset = 59
    /\ Cardinality(SecondSource) = 2
    /\ \A n \in SecondSource : Before(n) = Old /\ Out(n).rows # In(n).rows

\* C30: a batch that aborts because no file yielded a valid date reports
\* total = the number of enumerated files, success = 0 and failed = total; a
\* batch whose source directory holds no matching file reports total =
\* success = failed = 0 and neither scans nor rebases anything.
C30_AbortAndEmptyReports ==
    /\ phase = "Aborted" =>
          /\ NoFileYields
          /\ Len(csv_files) > 0
          /\ results.total = Len(csv_files)
          /\ results.success = 0
          /\ results.failed = results.total
    /\ phase = "NoFiles" =>
          /\ Len(csv_files) = 0
          /\ results = [total |-> 0, success |-> 0, failed |-> 0]
          /\ idx = 0
          /\ file_info = <<>>
          /\ \A n \in Names : task[n].pc = "queued"
          /\ outFs = outFs0

\* a file that opens without a valid timestamp and a file that cannot be
\* opened: the batch aborted and reports both as failed
C30_Witness ==
    /\ phase = "Aborted"
    /\ results = [total |-> 2, success |-> 0, failed |-> 2]
    /\ \E n \in Files : In(n) = In_G
    /\ \E n \in Files : In(n) = Unreadable

\* the content of the file at output_path in the two-batch run
Published == twin.inode[twin.out]

\* batch b is between opening the temporary file and renaming it
HoldsTemp(b) ==
    /\ twin.pc[b] \in {"write", "exists", "remove", "move"}
    /\ twin.fd[b] = twin.temp

\* C29: when two batches rebase a file of the same name into the same
\* directory at the same time, the file at output_path is at every moment
\* the complete output of one of the two (or the file of before): never
\* truncated or interleaved; and no batch renames or removes the temporary
\* file the other is working on.
C29_TwoBatchesOneOutput ==
    /\ [](twin.out # 0 =>
             Published \in {PriorContent} \cup {Chunks(b) : b \in Batches})
    /\ [][\A b \in Batches :
             (twin.pc'[b] # twin.pc[b] /\ twin.temp # 0 /\ twin.temp' = 0) =>
                 \A c \in Batches \ {b} : ~HoldsTemp(c)]_vars
====
